---- MODULE Spec2Model ----
(***************************************************************************)
(* Configuration loading of ibmcloud-volume-interface (config/config.go):  *)
(* path resolution, TOML decode, environment overlay.                      *)
(*                                                                         *)
(* A string that is a path is a sequence of tokens, each the separator "/" *)
(* or a name without separator, so that filepath.Join and filepath.Clean   *)
(* are computed; the empty string is the empty sequence.  Every other      *)
(* string is a TLA+ string.                                                *)
(***************************************************************************)
EXTENDS Integers, Sequences, FiniteSets, TLC

VARIABLES
    environ,   \* the process environment: a function from the names that are set to their values
    fileAt,    \* the path of the one file on disk
    file,      \* the content of that file
    out        \* the last call and what it returned

vars == <<environ, fileAt, file, out>>

----------------------------------------------------------------------------
(* Bounds of the model *)

\* At most this many environment variables are set at a time.
MaxEnvSet == 2

----------------------------------------------------------------------------
(* The configuration schema *)

\* type ServerConfig struct (config.go:106-109), the type of Config.Server: a row per
\* field in declaration order, with its type, its toml key and its envconfig tag.
ServerConfig ==
    << [sec |-> "Server", name |-> "DebugTrace", upper |-> "DEBUGTRACE", kind |-> "bool",
        toml |-> "debug_trace", envconfig |-> "DEBUG_TRACE"] >>

\* type BluemixConfig struct (config.go:112-122), the type of Config.Bluemix: a row per
\* field in declaration order, with its type, its toml key and its envconfig tag.
BluemixConfig ==
    << [sec |-> "Bluemix", name |-> "IamURL", upper |-> "IAMURL", kind |-> "string",
        toml |-> "iam_url", envconfig |-> ""],
       [sec |-> "Bluemix", name |-> "IamClientID", upper |-> "IAMCLIENTID", kind |-> "string",
        toml |-> "iam_client_id", envconfig |-> ""],
       [sec |-> "Bluemix", name |-> "IamClientSecret", upper |-> "IAMCLIENTSECRET", kind |-> "string",
        toml |-> "iam_client_secret", envconfig |-> ""],
       [sec |-> "Bluemix", name |-> "IamAPIKey", upper |-> "IAMAPIKEY", kind |-> "string",
        toml |-> "iam_api_key", envconfig |-> ""],
       [sec |-> "Bluemix", name |-> "RefreshToken", upper |-> "REFRESHTOKEN", kind |-> "string",
        toml |-> "refresh_token", envconfig |-> ""],
       [sec |-> "Bluemix", name |-> "APIEndpointURL", upper |-> "APIENDPOINTURL", kind |-> "string",
        toml |-> "containers_api_route", envconfig |-> ""],
       [sec |-> "Bluemix", name |-> "PrivateAPIRoute", upper |-> "PRIVATEAPIROUTE", kind |-> "string",
        toml |-> "containers_api_route_private", envconfig |-> ""],
       [sec |-> "Bluemix", name |-> "Encryption", upper |-> "ENCRYPTION", kind |-> "bool",
        toml |-> "encryption", envconfig |-> ""],
       [sec |-> "Bluemix", name |-> "CSRFToken", upper |-> "CSRFTOKEN", kind |-> "string",
        toml |-> "containers_api_csrf_token", envconfig |-> ""] >>

\* type SoftlayerConfig struct (config.go:125-145), the type of Config.Softlayer: a row per
\* field in declaration order, with its type, its toml key and its envconfig tag.
SoftlayerConfig ==
    << [sec |-> "Softlayer", name |-> "SoftlayerBlockEnabled", upper |-> "SOFTLAYERBLOCKENABLED", kind |-> "bool",
        toml |-> "softlayer_block_enabled", envconfig |-> "SOFTLAYER_BLOCK_ENABLED"],
       [sec |-> "Softlayer", name |-> "SoftlayerBlockProviderName", upper |-> "SOFTLAYERBLOCKPROVIDERNAME", kind |-> "string",
        toml |-> "softlayer_block_provider_name", envconfig |-> "SOFTLAYER_BLOCK_PROVIDER_NAME"],
       [sec |-> "Softlayer", name |-> "SoftlayerFileEnabled", upper |-> "SOFTLAYERFILEENABLED", kind |-> "bool",
        toml |-> "softlayer_file_enabled", envconfig |-> "SOFTLAYER_FILE_ENABLED"],
       [sec |-> "Softlayer", name |-> "SoftlayerFileProviderName", upper |-> "SOFTLAYERFILEPROVIDERNAME", kind |-> "string",
        toml |-> "softlayer_file_provider_name", envconfig |-> "SOFTLAYER_FILE_PROVIDER_NAME"],
       [sec |-> "Softlayer", name |-> "SoftlayerUsername", upper |-> "SOFTLAYERUSERNAME", kind |-> "string",
        toml |-> "softlayer_username", envconfig |-> ""],
       [sec |-> "Softlayer", name |-> "SoftlayerAPIKey", upper |-> "SOFTLAYERAPIKEY", kind |-> "string",
        toml |-> "softlayer_api_key", envconfig |-> ""],
       [sec |-> "Softlayer", name |-> "SoftlayerEndpointURL", upper |-> "SOFTLAYERENDPOINTURL", kind |-> "string",
        toml |-> "softlayer_endpoint_url", envconfig |-> ""],
       [sec |-> "Softlayer", name |-> "SoftlayerDataCenter", upper |-> "SOFTLAYERDATACENTER", kind |-> "string",
        toml |-> "softlayer_datacenter", envconfig |-> ""],
       [sec |-> "Softlayer", name |-> "SoftlayerTimeout", upper |-> "SOFTLAYERTIMEOUT", kind |-> "string",
        toml |-> "softlayer_api_timeout", envconfig |-> "SOFTLAYER_API_TIMEOUT"],
       [sec |-> "Softlayer", name |-> "SoftlayerVolProvisionTimeout", upper |-> "SOFTLAYERVOLPROVISIONTIMEOUT", kind |-> "string",
        toml |-> "softlayer_vol_provision_timeout", envconfig |-> "SOFTLAYER_VOL_PROVISION_TIMEOUT"],
       [sec |-> "Softlayer", name |-> "SoftlayerRetryInterval", upper |-> "SOFTLAYERRETRYINTERVAL", kind |-> "string",
        toml |-> "softlayer_api_retry_interval", envconfig |-> "SOFTLAYER_API_RETRY_INTERVAL"],
       [sec |-> "Softlayer", name |-> "SoftlayerJWTKID", upper |-> "SOFTLAYERJWTKID", kind |-> "string",
        toml |-> "softlayer_jwt_kid", envconfig |-> ""],
       [sec |-> "Softlayer", name |-> "SoftlayerJWTTTL", upper |-> "SOFTLAYERJWTTTL", kind |-> "int",
        toml |-> "softlayer_jwt_ttl", envconfig |-> ""],
       [sec |-> "Softlayer", name |-> "SoftlayerJWTValidFrom", upper |-> "SOFTLAYERJWTVALIDFROM", kind |-> "int",
        toml |-> "softlayer_jwt_valid", envconfig |-> ""],
       [sec |-> "Softlayer", name |-> "SoftlayerIMSEndpointURL", upper |-> "SOFTLAYERIMSENDPOINTURL", kind |-> "string",
        toml |-> "softlayer_iam_endpoint_url", envconfig |-> ""],
       [sec |-> "Softlayer", name |-> "SoftlayerAPIDebug", upper |-> "SOFTLAYERAPIDEBUG", kind |-> "bool",
        toml |-> "SoftlayerAPIDebug", envconfig |-> ""] >>

\* type VPCProviderConfig struct (config.go:148-185), the type of Config.VPC: a row per
\* field in declaration order, with its type, its toml key and its envconfig tag.
VPCProviderConfig ==
    << [sec |-> "VPC", name |-> "Enabled", upper |-> "ENABLED", kind |-> "bool",
        toml |-> "vpc_enabled", envconfig |-> "VPC_ENABLED"],
       [sec |-> "VPC", name |-> "IamClientID", upper |-> "IAMCLIENTID", kind |-> "string",
        toml |-> "iam_client_id", envconfig |-> ""],
       [sec |-> "VPC", name |-> "IamClientSecret", upper |-> "IAMCLIENTSECRET", kind |-> "string",
        toml |-> "iam_client_secret", envconfig |-> ""],
       [sec |-> "VPC", name |-> "VPCTypeEnabled", upper |-> "VPCTYPEENABLED", kind |-> "string",
        toml |-> "vpc_type_enabled", envconfig |-> "VPC_TYPE_ENABLED"],
       [sec |-> "VPC", name |-> "VPCBlockProviderType", upper |-> "VPCBLOCKPROVIDERTYPE", kind |-> "string",
        toml |-> "provider_type", envconfig |-> ""],
       [sec |-> "VPC", name |-> "VPCProviderType", upper |-> "VPCPROVIDERTYPE", kind |-> "string",
        toml |-> "vpc_provider_type", envconfig |-> ""],
       [sec |-> "VPC", name |-> "EndpointURL", upper |-> "ENDPOINTURL", kind |-> "string",
        toml |-> "gc_riaas_endpoint_url", envconfig |-> ""],
       [sec |-> "VPC", name |-> "PrivateEndpointURL", upper |-> "PRIVATEENDPOINTURL", kind |-> "string",
        toml |-> "gc_riaas_endpoint_private_url", envconfig |-> ""],
       [sec |-> "VPC", name |-> "TokenExchangeURL", upper |-> "TOKENEXCHANGEURL", kind |-> "string",
        toml |-> "gc_token_exchange_endpoint_url", envconfig |-> ""],
       [sec |-> "VPC", name |-> "APIKey", upper |-> "APIKEY", kind |-> "string",
        toml |-> "gc_api_key", envconfig |-> ""],
       [sec |-> "VPC", name |-> "ResourceGroupID", upper |-> "RESOURCEGROUPID", kind |-> "string",
        toml |-> "gc_resource_group_id", envconfig |-> ""],
       [sec |-> "VPC", name |-> "VPCAPIGeneration", upper |-> "VPCAPIGENERATION", kind |-> "int",
        toml |-> "vpc_api_generation", envconfig |-> "VPC_API_GENERATION"],
       [sec |-> "VPC", name |-> "APIVersion", upper |-> "APIVERSION", kind |-> "string",
        toml |-> "api_version", envconfig |-> "VPC_API_VERSION"],
       [sec |-> "VPC", name |-> "G2EndpointURL", upper |-> "G2ENDPOINTURL", kind |-> "string",
        toml |-> "g2_riaas_endpoint_url", envconfig |-> ""],
       [sec |-> "VPC", name |-> "G2EndpointPrivateURL", upper |-> "G2ENDPOINTPRIVATEURL", kind |-> "string",
        toml |-> "g2_riaas_endpoint_private_url", envconfig |-> ""],
       [sec |-> "VPC", name |-> "G2TokenExchangeURL", upper |-> "G2TOKENEXCHANGEURL", kind |-> "string",
        toml |-> "g2_token_exchange_endpoint_url", envconfig |-> ""],
       [sec |-> "VPC", name |-> "G2APIKey", upper |-> "G2APIKEY", kind |-> "string",
        toml |-> "g2_api_key", envconfig |-> ""],
       [sec |-> "VPC", name |-> "G2ResourceGroupID", upper |-> "G2RESOURCEGROUPID", kind |-> "string",
        toml |-> "g2_resource_group_id", envconfig |-> ""],
       [sec |-> "VPC", name |-> "G2VPCAPIGeneration", upper |-> "G2VPCAPIGENERATION", kind |-> "int",
        toml |-> "g2_vpc_api_generation", envconfig |-> "G2_VPC_API_GENERATION"],
       [sec |-> "VPC", name |-> "G2APIVersion", upper |-> "G2APIVERSION", kind |-> "string",
        toml |-> "g2_api_version", envconfig |-> "G2_VPC_API_VERSION"],
       [sec |-> "VPC", name |-> "Encryption", upper |-> "ENCRYPTION", kind |-> "bool",
        toml |-> "encryption", envconfig |-> ""],
       [sec |-> "VPC", name |-> "VPCTimeout", upper |-> "VPCTIMEOUT", kind |-> "string",
        toml |-> "vpc_api_timeout", envconfig |-> "VPC_API_TIMEOUT"],
       [sec |-> "VPC", name |-> "MaxRetryAttempt", upper |-> "MAXRETRYATTEMPT", kind |-> "int",
        toml |-> "max_retry_attempt", envconfig |-> "VPC_RETRY_ATTEMPT"],
       [sec |-> "VPC", name |-> "MaxRetryGap", upper |-> "MAXRETRYGAP", kind |-> "int",
        toml |-> "max_retry_gap", envconfig |-> "VPC_RETRY_INTERVAL"],
       [sec |-> "VPC", name |-> "IKSTokenExchangePrivateURL", upper |-> "IKSTOKENEXCHANGEPRIVATEURL", kind |-> "string",
        toml |-> "iks_token_exchange_endpoint_private_url", envconfig |-> ""],
       [sec |-> "VPC", name |-> "IsIKS", upper |-> "ISIKS", kind |-> "bool",
        toml |-> "is_iks", envconfig |-> ""] >>

\* type IKSConfig struct (config.go:188-191), the type of Config.IKS: a row per
\* field in declaration order, with its type, its toml key and its envconfig tag.
IKSConfig ==
    << [sec |-> "IKS", name |-> "Enabled", upper |-> "ENABLED", kind |-> "bool",
        toml |-> "iks_enabled", envconfig |-> "IKS_ENABLED"],
       [sec |-> "IKS", name |-> "IKSBlockProviderName", upper |-> "IKSBLOCKPROVIDERNAME", kind |-> "string",
        toml |-> "iks_block_provider_name", envconfig |-> "IKS_BLOCK_PROVIDER_NAME"] >>

\* type APIConfig struct (config.go:194-196), the type of Config.API: a row per
\* field in declaration order, with its type, its toml key and its envconfig tag.
APIConfig ==
    << [sec |-> "API", name |-> "PassthroughSecret", upper |-> "PASSTHROUGHSECRET", kind |-> "string",
        toml |-> "PassthroughSecret", envconfig |-> ""] >>
\* type Config struct (config.go:43-50): its fields, every one a pointer to a
\* struct, each with its name in upper case, the prefix envconfig gives the
\* variables of the fields below it.
Config ==
    [Server |-> "SERVER", Bluemix |-> "BLUEMIX", Softlayer |-> "SOFTLAYER",
     VPC |-> "VPC", IKS |-> "IKS", API |-> "API"]

Sections == DOMAIN Config

\* Every leaf field of Config in declaration order: the order in which
\* envconfig gathers and then processes them.
Fields ==
    ServerConfig \o BluemixConfig \o SoftlayerConfig \o VPCProviderConfig
        \o IKSConfig \o APIConfig

\* The Go zero value of a field's type.
Zero(kind) == CASE kind = "bool" -> FALSE
                [] kind = "int" -> 0
                [] OTHER -> ""

\* The variable envconfig.Process("", conf) looks up first for a field of a
\* nested struct: the struct's field name as prefix, then the envconfig tag or,
\* without a tag, the field name, all in upper case (the tags of this schema
\* are in upper case as written).
Key(f) == Config[f.sec] \o "_" \o (IF f.envconfig # "" THEN f.envconfig ELSE f.upper)

\* The variable it falls back to: the envconfig tag alone ("" without a tag).
Alt(f) == f.envconfig

----------------------------------------------------------------------------
(* Paths: path/filepath on token sequences *)

Sep == "/"

\* strings.Join(elems, "/"): the elements with a separator between neighbours.
RECURSIVE StringsJoin(_)
StringsJoin(elems) ==
    IF elems = <<>> THEN <<>>
    ELSE IF Len(elems) = 1 THEN elems[1]
    ELSE elems[1] \o <<Sep>> \o StringsJoin(Tail(elems))

\* One step of filepath.Clean over the names kept so far: a separator (single
\* or repeated) and "." are dropped, ".." removes the name before it, is
\* dropped at the root, and is kept at the start of a relative path.
CleanStep(names, t, rooted) ==
    IF t = Sep \/ t = "." THEN names
    ELSE IF t # ".." THEN Append(names, t)
    ELSE IF names # <<>> /\ names[Len(names)] # ".." THEN SubSeq(names, 1, Len(names) - 1)
    ELSE IF rooted THEN names
    ELSE Append(names, t)

RECURSIVE CleanNames(_, _, _)
CleanNames(p, rooted, names) ==
    IF p = <<>> THEN names
    ELSE CleanNames(Tail(p), rooted, CleanStep(names, Head(p), rooted))

\* The path filepath.Clean writes from the names it kept.
CleanPath(rooted, names) ==
    IF names = <<>> THEN (IF rooted THEN <<Sep>> ELSE <<".">>)
    ELSE (IF rooted THEN <<Sep>> ELSE <<>>)
            \o StringsJoin([i \in 1..Len(names) |-> <<names[i]>>])

IsRooted(p) == p # <<>> /\ p[1] = Sep

\* filepath.Clean: the shortest path equivalent to p.
Clean(p) == CleanPath(IsRooted(p), CleanNames(p, IsRooted(p), <<>>))

\* filepath.Join: the elements from the first non-empty one on, joined by the
\* separator and cleaned; "" when every element is empty.
RECURSIVE Join(_)
Join(elems) ==
    IF elems = <<>> THEN <<>>
    ELSE IF elems[1] # <<>> THEN Clean(StringsJoin(elems))
    ELSE Join(Tail(elems))

\* The fixed file name (config.go:71, 88).
ConfFileName == <<"libconfig.toml">>

----------------------------------------------------------------------------
(* The environment *)

\* os.LookupEnv, as envconfig uses it: whether key is set, and its value.
LookupEnv(env, key) ==
    IF key \in DOMAIN env THEN [ok |-> TRUE, value |-> env[key]]
    ELSE [ok |-> FALSE, value |-> ""]

\* getEnv (config.go:30-32) for the two path variables, whose names are in
\* upper case already: os.Getenv gives "" for an unset variable.
getEnv(env, key) == IF key \in DOMAIN env THEN env[key] ELSE <<>>

\* GetGoPath (config.go:35-40).
GetGoPath(env) ==
    IF getEnv(env, "GOPATH") # <<>> THEN getEnv(env, "GOPATH") ELSE <<>>

\* GetEtcPath (config.go:199-204).
GetEtcPath(env) ==
    Join(<< GetGoPath(env),
            Join(<< <<"src">>, <<"github.com">>, <<"IBM">>,
                    <<"ibmcloud-volume-interface">> >>),
            <<"etc">> >>)

\* GetDefaultConfPath (config.go:87-89).
GetDefaultConfPath(env) == Join(<<GetEtcPath(env), ConfFileName>>)

\* A resolver that never consults SECRET_CONFIG_PATH.
GetConfPathIgnoringSecret(env) == GetDefaultConfPath(env)

\* GetConfPath (config.go:69-75).
GetConfPath(env) ==
    IF getEnv(env, "SECRET_CONFIG_PATH") # <<>>
    THEN Join(<<getEnv(env, "SECRET_CONFIG_PATH"), ConfFileName>>)
    ELSE GetDefaultConfPath(env)

\* GetConfPathDir (config.go:78-84).
GetConfPathDir(env) ==
    IF getEnv(env, "SECRET_CONFIG_PATH") # <<>>
    THEN getEnv(env, "SECRET_CONFIG_PATH")
    ELSE GetEtcPath(env)

----------------------------------------------------------------------------
(* Errors and log lines *)

NoError == [class |-> "nil", detail |-> ""]
DecodeError(why) == [class |-> "decode", detail |-> why]
\* envconfig's ParseError names the variable whose value did not convert.
OverlayError(key) == [class |-> "overlay", detail |-> key]

ParseFailed == [level |-> "error", msg |-> "Failed to parse config file"]
GatherFailed == [level |-> "error", msg |-> "Failed to gather environment config variable"]
ParsingConfFile == [level |-> "info", msg |-> "parsing conf file"]

\* logger.Error(line) under `if err != nil`.
LogIfError(err, line) == IF err # NoError THEN <<line>> ELSE <<>>

----------------------------------------------------------------------------
(* The configuration record *)

\* A Config value is [nonNil, fld]: the sub-records that are non-nil, and the
\* value of every leaf field (the fields of a nil sub-record at zero).
ZeroFields == [i \in DOMAIN Fields |-> Zero(Fields[i].kind)]

\* The record ReadConfig starts from (config.go:60-62): IKS allocated, every
\* other sub-record nil.
NewConfig == [nonNil |-> {"IKS"}, fld |-> ZeroFields]

----------------------------------------------------------------------------
(* The TOML file *)

\* A file's content: kind "missing" (no file), "syntax" (not TOML), or "toml"
\* with doc, a function from table names to functions from keys to typed
\* values.  Table names are those of Config's fields, which the decoder matches
\* without regard to case.
TBool(b) == [t |-> "bool", v |-> b]
TInt(n) == [t |-> "int", v |-> n]
TString(s) == [t |-> "string", v |-> s]

Missing == [kind |-> "missing", doc |-> <<>>]

\* Whether the file gives field f a value of its type, and the value.
Given(content, f) ==
    /\ content.kind = "toml"
    /\ f.sec \in DOMAIN content.doc
    /\ f.toml \in DOMAIN content.doc[f.sec]
    /\ content.doc[f.sec][f.toml].t = f.kind

FileValue(content, f) == content.doc[f.sec][f.toml].v

\* Whether key = value of table sec cannot be stored in field f.
Mismatch(f, sec, key, value) == f.sec = sec /\ f.toml = key /\ value.t # f.kind

\* Whether table sec unifies with its struct: every key that names a field
\* holds a value of the field's type (a key that names no field is ignored).
SectionUnifies(table, sec) ==
    \A key \in DOMAIN table : \A i \in DOMAIN Fields :
        ~Mismatch(Fields[i], sec, key, table[key])

\* The tables of the file that unify.
GoodSections(content) ==
    {sec \in DOMAIN content.doc : SectionUnifies(content.doc[sec], sec)}

\* The tables toml.DecodeFile decodes.  The decoder visits the tables in map
\* order, which Go randomises, and stops at the first table that does not
\* unify: with early the tables that order puts before it, the tables decoded
\* are the early ones that unify.  When all unify, all are decoded.
Visited(good, all, early) == IF good = all THEN all ELSE good \cap early

\* A decoded table replaces the sub-record by a fresh struct holding the
\* table's values, zero elsewhere; any other sub-record stays as it was.
UnifyField(content, f, old, done) ==
    IF f.sec \notin done THEN old
    ELSE IF Given(content, f) THEN FileValue(content, f)
    ELSE Zero(f.kind)

UnifyTables(content, conf, good, early) ==
    [conf |->
        [nonNil |-> conf.nonNil \cup Visited(good, DOMAIN content.doc, early),
         fld |-> [i \in DOMAIN Fields |->
                    UnifyField(content, Fields[i], conf.fld[i],
                               Visited(good, DOMAIN content.doc, early))]],
     err |-> IF good = DOMAIN content.doc THEN NoError
             ELSE DecodeError("type mismatch")]

\* toml.DecodeFile(filePath, conf) (config.go:93) on the content at filePath.
\* A missing file or a syntax error leaves conf untouched.
DecodeFile(content, conf, early) ==
    IF content.kind = "missing" THEN [conf |-> conf, err |-> DecodeError("no such file")]
    ELSE IF content.kind = "syntax" THEN [conf |-> conf, err |-> DecodeError("syntax")]
    ELSE UnifyTables(content, conf, GoodSections(content), early)

----------------------------------------------------------------------------
(* The environment overlay *)

\* strconv.ParseBool.
ParseBool(s) ==
    IF s \in {"1", "t", "T", "TRUE", "true", "True"} THEN [ok |-> TRUE, val |-> TRUE]
    ELSE IF s \in {"0", "f", "F", "FALSE", "false", "False"} THEN [ok |-> TRUE, val |-> FALSE]
    ELSE [ok |-> FALSE, val |-> FALSE]

\* strconv.ParseInt on the decimal literals the model's values hold; any other
\* value is a syntax error.
Decimals == ("0" :> 0) @@ ("1" :> 1) @@ ("2" :> 2) @@ ("3" :> 3)

ParseInt(s) ==
    IF s \in DOMAIN Decimals THEN [ok |-> TRUE, val |-> Decimals[s]]
    ELSE [ok |-> FALSE, val |-> 0]

\* envconfig's processField: the value converted to the field's type.
processField(value, kind) ==
    CASE kind = "bool" -> ParseBool(value)
      [] kind = "int" -> ParseInt(value)
      [] OTHER -> [ok |-> TRUE, val |-> value]

\* A lookup that takes an unset variable for one set to "".
LookupUnsetAsEmpty(env, f) ==
    IF LookupEnv(env, Key(f)).ok THEN LookupEnv(env, Key(f))
    ELSE IF Alt(f) # "" /\ LookupEnv(env, Alt(f)).ok THEN LookupEnv(env, Alt(f))
    ELSE [ok |-> TRUE, value |-> ""]

\* The variable envconfig.Process reads a field from: Key, and when that is
\* unset, Alt.
Lookup(env, f) ==
    IF LookupEnv(env, Key(f)).ok THEN LookupEnv(env, Key(f))
    ELSE IF Alt(f) # "" THEN LookupEnv(env, Alt(f))
    ELSE [ok |-> FALSE, value |-> ""]

Converted(env, f) == processField(Lookup(env, f).value, f.kind)

\* Whether the overlay's visit of field f fails: its variable is set and the
\* value does not convert to the field's type.
Fails(env, f) == Lookup(env, f).ok /\ ~Converted(env, f).ok

\* The first of the fields F, in order, whose visit fails; Len(F) + 1 when
\* none does.
FirstFailure(env, F) ==
    IF \E i \in DOMAIN F : Fails(env, F[i])
    THEN CHOOSE i \in DOMAIN F : Fails(env, F[i]) /\ \A j \in 1..(i - 1) : ~Fails(env, F[j])
    ELSE Len(F) + 1

\* A loop that hands back a zeroed record when a value does not convert.
ProcessLoopResetsOnFailure(env, conf, F, stop) ==
    [conf |->
        [conf EXCEPT !.fld =
            [i \in DOMAIN F |->
                IF stop <= Len(F) THEN Zero(F[i].kind)
                ELSE IF Lookup(env, F[i]).ok THEN Converted(env, F[i]).val
                ELSE conf.fld[i]]],
     err |-> IF stop <= Len(F) THEN OverlayError(Key(F[stop])) ELSE NoError]

\* The loop of envconfig.Process over the fields F in order, stop being the
\* first that fails: an unset variable leaves the field alone, a value that
\* converts is stored, and the first value that does not convert ends the loop
\* with a ParseError, the fields from there on unvisited.
ProcessLoop(env, conf, F, stop) ==
    [conf |->
        [conf EXCEPT !.fld =
            [i \in DOMAIN F |->
                IF i < stop /\ Lookup(env, F[i]).ok THEN Converted(env, F[i]).val
                ELSE conf.fld[i]]],
     err |-> IF stop <= Len(F) THEN OverlayError(Key(F[stop])) ELSE NoError]

\* envconfig.Process("", conf) (config.go:98): gatherInfo first replaces every
\* nil pointer to a struct by a zero struct, then the loop runs over the leaf
\* fields.  `required` on Config.Server has no effect: a struct field is
\* replaced by its leaves, none of which is required or has a default.
Process(env, conf) ==
    ProcessLoop(env, [conf EXCEPT !.nonNil = Sections], Fields, FirstFailure(env, Fields))

----------------------------------------------------------------------------
(* The loader *)

\* What os.Open finds at path: the one file, when path names its place.
ContentAt(path, at, f) ==
    IF path # <<>> /\ Clean(path) = Clean(at) THEN f ELSE Missing

\* What ParseConfig leaves and returns, d being the outcome of the decode and
\* p that of the overlay: the overlay's error, whatever the decode's.
LastError(d, p) ==
    [conf |-> p.conf, err |-> p.err,
     log |-> LogIfError(d.err, ParseFailed) \o LogIfError(p.err, GatherFailed)]

\* The decode's error when there is one, else the overlay's.
FirstError(d, p) ==
    [conf |-> p.conf, err |-> IF d.err # NoError THEN d.err ELSE p.err,
     log |-> LogIfError(d.err, ParseFailed) \o LogIfError(p.err, GatherFailed)]

\* config.go:94-102 after the decode d: the overlay runs on whatever the
\* decode left.
OverlayAfter(d, env) == LastError(d, Process(env, d.conf))

\* A loader that returns at the decode error, without the overlay.
OverlayUnlessDecodeFailed(d, env) ==
    IF d.err # NoError
    THEN [conf |-> d.conf, err |-> d.err, log |-> <<ParseFailed>>]
    ELSE LastError(d, Process(env, d.conf))

\* A loader that returns the first error met instead of the last.
ParseConfigFirstError(content, conf, env, early) ==
    FirstError(DecodeFile(content, conf, early),
               Process(env, DecodeFile(content, conf, early).conf))

\* A loader that returns at the decode error.
ParseConfigReturnsAtDecodeError(content, conf, env, early) ==
    OverlayUnlessDecodeFailed(DecodeFile(content, conf, early), env)

\* A loader that overlays the environment before it decodes the file.
ParseConfigOverlayFirst(content, conf, env, early) ==
    [conf |-> DecodeFile(content, Process(env, conf).conf, early).conf,
     err |-> DecodeFile(content, Process(env, conf).conf, early).err,
     log |-> LogIfError(Process(env, conf).err, GatherFailed)
             \o LogIfError(DecodeFile(content, Process(env, conf).conf, early).err,
                           ParseFailed)]

\* ParseConfig (config.go:92-103): decode, log a failure, overlay, log a
\* failure, return the overlay's error.
ParseConfig(content, conf, env, early) ==
    OverlayAfter(DecodeFile(content, conf, early), env)

\* What ReadConfig returns and logs, with the path it handed to ParseConfig;
\* isNil is whether the returned *Config is nil (config.go:63-65).
Returned(path, r) ==
    [path |-> path, isNil |-> FALSE, conf |-> r.conf, err |-> r.err,
     log |-> <<ParsingConfFile>> \o r.log]

\* A return without a record when the load failed.
ReturnedNilOnError(path, r) ==
    [path |-> path, isNil |-> r.err # NoError,
     conf |-> IF r.err # NoError THEN [nonNil |-> {}, fld |-> ZeroFields] ELSE r.conf,
     err |-> r.err,
     log |-> <<ParsingConfFile>> \o r.log]

\* config.go:60-65 with confPath resolved to path.
ReadConfigAt(path, env, at, f, early) ==
    Returned(path, ParseConfig(ContentAt(path, at, f), NewConfig, env, early))

\* A ReadConfig that resolves an empty confPath through GetConfPath.
ReadConfigViaSecretPath(confPath, env, at, f, early) ==
    ReadConfigAt(IF confPath = <<>> THEN GetConfPath(env) ELSE confPath,
                 env, at, f, early)

\* A ReadConfig that returns no record when the load failed.
ReadConfigNilOnError(confPath, env, at, f, early) ==
    ReturnedNilOnError(
        IF confPath = <<>> THEN GetDefaultConfPath(env) ELSE confPath,
        ParseConfig(ContentAt(IF confPath = <<>> THEN GetDefaultConfPath(env) ELSE confPath,
                              at, f),
                    NewConfig, env, early))

\* ReadConfig (config.go:53-66).
ReadConfig(confPath, env, at, f, early) ==
    ReadConfigAt(IF confPath = <<>> THEN GetDefaultConfPath(env) ELSE confPath,
                 env, at, f, early)

----------------------------------------------------------------------------
(* Inputs *)

\* The overlay variables the model sets: the tag of a bool field, the same tag
\* with its section prefix, the derived name of an untagged field, the tag of
\* an int field, and a variable no field reads.
FieldVars ==
    {"DEBUG_TRACE", "SERVER_DEBUG_TRACE", "BLUEMIX_IAMURL", "VPC_API_GENERATION", "HOME"}

\* Values that convert to bool and int ("1"), to bool only, and to neither.
EnvValues == {"1", "false", "notanumber"}

PathVars == {"GOPATH", "SECRET_CONFIG_PATH"}

\* "" (set and empty), "/go", "/tmp/cfg" and "/tmp/cfg/".
PathValues ==
    { <<>>,
      <<Sep, "go">>,
      <<Sep, "tmp", Sep, "cfg">>,
      <<Sep, "tmp", Sep, "cfg", Sep>> }

\* The confPath arguments: none, a path that is not clean, a path with no file.
ConfPathArgs ==
    { <<>>,
      <<Sep, "etc", Sep, ".", Sep, "app.toml">>,
      <<"nofile.toml">> }

\* Where the file may be: an explicit place, or the default place when GOPATH
\* is unset.
FilePlaces ==
    { <<Sep, "etc", Sep, "app.toml">>,
      <<"src", Sep, "github.com", Sep, "IBM", Sep, "ibmcloud-volume-interface",
        Sep, "etc", Sep, "libconfig.toml">> }

FileEmpty == [kind |-> "toml", doc |-> <<>>]

FileA ==
    [kind |-> "toml",
     doc |-> ("Server" :> ("debug_trace" :> TBool(FALSE)))
          @@ ("Bluemix" :> ("iam_url" :> TString("https://iam.bluemix.net")))
          @@ ("VPC" :> (("vpc_enabled" :> TBool(TRUE))
                        @@ ("vpc_api_generation" :> TInt(2))
                        @@ ("gc_api_key" :> TString("vpckey"))))
          @@ ("IKS" :> ("iks_enabled" :> TBool(TRUE)))
          @@ ("API" :> ("PassthroughSecret" :> TString("pass")))]

FileB ==
    [kind |-> "toml",
     doc |-> ("Server" :> ("debug_trace" :> TBool(TRUE)))
          @@ ("Softlayer" :> (("softlayer_username" :> TString("user"))
                              @@ ("softlayer_block_enabled" :> TBool(TRUE))
                              @@ ("softlayer_jwt_ttl" :> TInt(3))
                              @@ ("not_a_field" :> TString("ignored"))))
          @@ ("VPC" :> ("max_retry_attempt" :> TInt(3)))]

\* vpc_api_generation holds a string: table VPC does not unify.
FileBadType ==
    [kind |-> "toml",
     doc |-> ("Server" :> ("debug_trace" :> TBool(TRUE)))
          @@ ("Bluemix" :> ("iam_url" :> TString("https://iam.bluemix.net")))
          @@ ("VPC" :> (("vpc_enabled" :> TBool(TRUE))
                        @@ ("vpc_api_generation" :> TString("two"))))]

FileSyntax == [kind |-> "syntax", doc |-> <<>>]

Files == {FileEmpty, FileA, FileB, FileBadType, FileSyntax}

\* The map orders that make a difference for file f: the subsets of its
\* tables that unify, when one does not.
EarlyChoices(f) ==
    IF GoodSections(f) # DOMAIN f.doc THEN SUBSET GoodSections(f) ELSE {{}}

----------------------------------------------------------------------------
(* The state machine: a caller sets up the environment, makes a call, looks *)
(* at what it returned, and goes on.                                        *)

Idle == [op |-> "none"]

Init ==
    /\ environ = <<>>
    /\ fileAt \in FilePlaces
    /\ file \in Files
    /\ out = Idle

\* os.Setenv of an overlay variable.
SetFieldVar ==
    \E k \in FieldVars, v \in EnvValues :
        /\ out = Idle
        /\ k \in DOMAIN environ \/ Cardinality(DOMAIN environ) < MaxEnvSet
        /\ environ' = (k :> v) @@ environ
        /\ UNCHANGED <<fileAt, file, out>>

\* os.Setenv of GOPATH or SECRET_CONFIG_PATH.
SetPathVar ==
    \E k \in PathVars, v \in PathValues :
        /\ out = Idle
        /\ k \in DOMAIN environ \/ Cardinality(DOMAIN environ) < MaxEnvSet
        /\ environ' = (k :> v) @@ environ
        /\ UNCHANGED <<fileAt, file, out>>

\* os.Unsetenv.
Unsetenv ==
    \E k \in DOMAIN environ :
        /\ out = Idle
        /\ environ' = [x \in DOMAIN environ \ {k} |-> environ[x]]
        /\ UNCHANGED <<fileAt, file, out>>

CallReadConfig ==
    \E confPath \in ConfPathArgs, early \in EarlyChoices(file) :
        /\ out = Idle
        /\ out' = [op |-> "ReadConfig", arg |-> confPath]
                  @@ ReadConfig(confPath, environ, fileAt, file, early)
        /\ UNCHANGED <<environ, fileAt, file>>

CallGetConfPath ==
    /\ out = Idle
    /\ out' = [op |-> "GetConfPath", val |-> GetConfPath(environ)]
    /\ UNCHANGED <<environ, fileAt, file>>

CallGetConfPathDir ==
    /\ out = Idle
    /\ out' = [op |-> "GetConfPathDir", val |-> GetConfPathDir(environ)]
    /\ UNCHANGED <<environ, fileAt, file>>

\* The caller is done with the result.
Return ==
    /\ out # Idle
    /\ out' = Idle
    /\ UNCHANGED <<environ, fileAt, file>>

Next ==
    \/ SetFieldVar
    \/ SetPathVar
    \/ Unsetenv
    \/ CallReadConfig
    \/ CallGetConfPath
    \/ CallGetConfPathDir
    \/ Return

Spec == Init /\ [][Next]_vars

----------------------------------------------------------------------------
(* What the properties below speak of *)

IsRead == out.op = "ReadConfig"

\* The content at the path the last ReadConfig read.
ReadContent == ContentAt(out.path, fileAt, file)

\* The decode of content fails: no file, no TOML, or a table that does not unify.
DecodeFails(content) ==
    content.kind # "toml" \/ GoodSections(content) # DOMAIN content.doc

\* The overlay fails: some variable it reads is set and does not convert.
OverlayFails == \E i \in DOMAIN Fields : Fails(environ, Fields[i])

\* Field f carries a tag, and the variable the tag names is set and converts.
TagConverts(f) ==
    /\ f.envconfig # ""
    /\ f.envconfig \in DOMAIN environ
    /\ processField(environ[f.envconfig], f.kind).ok

TagValue(f) == processField(environ[f.envconfig], f.kind).val

\* No variable read for a field declared before field i fails to convert.
NoEarlierFailure(i) == \A j \in 1..(i - 1) : ~Fails(environ, Fields[j])

\* No variable the overlay reads for f is set.
NoVariable(f) ==
    /\ Key(f) \notin DOMAIN environ
    /\ f.envconfig = "" \/ f.envconfig \notin DOMAIN environ

\* Field i of the returned record is as the file alone fixes it: the value
\* the file gives, zero when it gives none, and after a failed decode either.
FixedByFile(i) ==
    IF ~DecodeFails(ReadContent)
    THEN out.conf.fld[i] = (IF Given(ReadContent, Fields[i])
                            THEN FileValue(ReadContent, Fields[i])
                            ELSE Zero(Fields[i].kind))
    ELSE \/ out.conf.fld[i] = Zero(Fields[i].kind)
         \/ /\ Given(ReadContent, Fields[i])
            /\ out.conf.fld[i] = FileValue(ReadContent, Fields[i])

Count(line, log) == Cardinality({k \in DOMAIN log : log[k] = line})

\* One error line for a failed decode, one for a failed overlay, none otherwise.
OneLinePerFailedStep ==
    /\ Count(ParseFailed, out.log) = (IF DecodeFails(ReadContent) THEN 1 ELSE 0)
    /\ Count(GatherFailed, out.log) = (IF OverlayFails THEN 1 ELSE 0)

Secret == getEnv(environ, "SECRET_CONFIG_PATH")
GoPath == getEnv(environ, "GOPATH")
EtcDir ==
    <<"src", Sep, "github.com", Sep, "IBM", Sep, "ibmcloud-volume-interface", Sep, "etc">>

----------------------------------------------------------------------------
(* C1 *)

\* C1: every ReadConfig call returns a non-nil Config whose IKS sub-record is
\* non-nil, with a nil error and with a non-nil error.
C1_ConfigAndIKSNeverNil ==
    IsRead => ~out.isNil /\ "IKS" \in out.conf.nonNil

\* A call on a missing file that returned an error, and a record.
C1_Witness ==
    /\ IsRead
    /\ ReadContent.kind = "missing"
    /\ out.err # NoError
    /\ ~out.isNil
    /\ "IKS" \in out.conf.nonNil

----------------------------------------------------------------------------
(* C2 *)

\* C2: when the decode fails and the overlay succeeds, ReadConfig returns the
\* decode error, with a non-nil Config whose IKS sub-record is allocated.
C2_DecodeErrorReturned ==
    (IsRead /\ DecodeFails(ReadContent) /\ ~OverlayFails)
        => /\ out.err.class = "decode"
           /\ ~out.isNil
           /\ "IKS" \in out.conf.nonNil

----------------------------------------------------------------------------
(* C3 *)

\* C3: when decode and overlay both fail the decode error is returned; when
\* only the overlay fails, the overlay error is.
C3_DecodeErrorHasPriority ==
    IsRead =>
        /\ (DecodeFails(ReadContent) /\ OverlayFails) => out.err.class = "decode"
        /\ (~DecodeFails(ReadContent) /\ OverlayFails) => out.err.class = "overlay"

----------------------------------------------------------------------------
(* C4 *)

\* C4 as stated: every tagged field whose variable is set and converts holds
\* the environment value in the returned Config, whatever the file gave.
C4_EnvAlwaysWins ==
    IsRead =>
        \A i \in DOMAIN Fields :
            TagConverts(Fields[i]) => out.conf.fld[i] = TagValue(Fields[i])

\* C4 amended: every tagged field whose variable is set and converts holds the
\* environment value, whatever the file gave, provided the section-prefixed
\* variable of the field is unset and no variable read for an earlier field
\* fails to convert.
C4_EnvWinsUnlessShadowedOrStopped ==
    IsRead =>
        \A i \in DOMAIN Fields :
            (/\ TagConverts(Fields[i])
             /\ Key(Fields[i]) \notin DOMAIN environ
             /\ NoEarlierFailure(i))
                => out.conf.fld[i] = TagValue(Fields[i])

\* The file read sets debug_trace = false, DEBUG_TRACE converts to true, and
\* the returned flag is true.
C4_Witness ==
    /\ IsRead
    /\ ~DecodeFails(ReadContent)
    /\ Given(ReadContent, Fields[1])
    /\ FileValue(ReadContent, Fields[1]) = FALSE
    /\ TagConverts(Fields[1])
    /\ TagValue(Fields[1]) = TRUE
    /\ out.conf.fld[1] = TRUE

----------------------------------------------------------------------------
(* C5 *)

\* C5 as stated: ReadConfig reads confPath when it is not empty, else
\* join(SECRET_CONFIG_PATH, "libconfig.toml") when that variable is not empty,
\* else the default path.
C5_SecretPathConsulted ==
    IsRead =>
        out.path = IF out.arg # <<>> THEN out.arg
                   ELSE IF Secret # <<>> THEN Join(<<Secret, ConfFileName>>)
                   ELSE Join(<<GoPath, EtcDir, ConfFileName>>)

\* C5 amended: ReadConfig reads confPath verbatim when it is not empty, else
\* the default path, whether or not SECRET_CONFIG_PATH is set.
C5_ExplicitElseDefault ==
    IsRead =>
        out.path = IF out.arg # <<>> THEN out.arg
                   ELSE Join(<<GoPath, EtcDir, ConfFileName>>)

\* A call without confPath, SECRET_CONFIG_PATH set, that read the default path.
C5_Witness ==
    /\ IsRead
    /\ out.arg = <<>>
    /\ Secret # <<>>
    /\ out.path = Join(<<GoPath, EtcDir, ConfFileName>>)
    /\ out.path # Join(<<Secret, ConfFileName>>)

----------------------------------------------------------------------------
(* C6 *)

\* C6 as stated: when the file decodes and the overlay fails, the overlay
\* error is returned and every field the file gave holds the file's value.
C6_FileValuesUnchanged ==
    (IsRead /\ ~DecodeFails(ReadContent) /\ OverlayFails)
        => /\ out.err.class = "overlay"
           /\ \A i \in DOMAIN Fields :
                Given(ReadContent, Fields[i])
                    => out.conf.fld[i] = FileValue(ReadContent, Fields[i])

\* C6 amended: when the file decodes and the overlay fails, the overlay error
\* is returned and every field the file gave holds the file's value, except
\* the fields declared before the failing one for which a variable is set.
C6_FileValuesKeptWhereNotOverlaid ==
    (IsRead /\ ~DecodeFails(ReadContent) /\ OverlayFails)
        => /\ out.err.class = "overlay"
           /\ \A i \in DOMAIN Fields :
                (/\ Given(ReadContent, Fields[i])
                 /\ NoVariable(Fields[i]) \/ ~NoEarlierFailure(i + 1))
                    => out.conf.fld[i] = FileValue(ReadContent, Fields[i])

\* The file gave vpc_api_generation, VPC_API_GENERATION does not convert, the
\* overlay error is returned and the field holds the file's value.
C6_Witness ==
    /\ IsRead
    /\ ~DecodeFails(ReadContent)
    /\ "VPC_API_GENERATION" \in DOMAIN environ
    /\ ~ParseInt(environ["VPC_API_GENERATION"]).ok
    /\ out.err.class = "overlay"
    /\ \E i \in DOMAIN Fields :
        /\ Fields[i].envconfig = "VPC_API_GENERATION"
        /\ Given(ReadContent, Fields[i])
        /\ out.conf.fld[i] = FileValue(ReadContent, Fields[i])

----------------------------------------------------------------------------
(* C7 *)

\* C7 as stated: a field without a tag is as the file alone fixes it, in every
\* environment.
C7_UntaggedNeverOverlaid ==
    IsRead =>
        \A i \in DOMAIN Fields : Fields[i].envconfig = "" => FixedByFile(i)

\* C7 amended: a field without a tag is as the file alone fixes it, unless the
\* variable <SECTION>_<FIELDNAME> in upper case is set.
C7_UntaggedOverlaidOnlyByDerivedName ==
    IsRead =>
        \A i \in DOMAIN Fields :
            (Fields[i].envconfig = "" /\ Key(Fields[i]) \notin DOMAIN environ)
                => FixedByFile(i)

\* The file gave iam_url, a tagged variable was overlaid, and IamURL holds the
\* file's value.
C7_Witness ==
    /\ IsRead
    /\ ~DecodeFails(ReadContent)
    /\ TagConverts(Fields[1])
    /\ out.conf.fld[1] = TagValue(Fields[1])
    /\ \E i \in DOMAIN Fields :
        /\ Fields[i].name = "IamURL"
        /\ Given(ReadContent, Fields[i])
        /\ out.conf.fld[i] = FileValue(ReadContent, Fields[i])

----------------------------------------------------------------------------
(* C8 *)

\* C8: with SECRET_CONFIG_PATH = d not empty, GetConfPath is
\* join(d, "libconfig.toml") and GetConfPathDir is d, whatever GOPATH is; with
\* it unset or empty they are GetDefaultConfPath() and GetEtcPath(); and
\* GetConfPath() = join(GetConfPathDir(), "libconfig.toml") either way.
C8_SecretDirReplacesDefault ==
    /\ out.op = "GetConfPath" =>
        /\ Secret # <<>> => out.val = Join(<<Secret, ConfFileName>>)
        /\ Clean(Secret) = <<Sep, "tmp", Sep, "cfg">>
              => out.val = <<Sep, "tmp", Sep, "cfg", Sep, "libconfig.toml">>
        /\ Secret = <<>> => out.val = GetDefaultConfPath(environ)
        /\ out.val = Join(<<GetConfPathDir(environ), ConfFileName>>)
    /\ out.op = "GetConfPathDir" =>
        /\ Secret # <<>> => out.val = Secret
        /\ Secret = <<>> => out.val = GetEtcPath(environ)

\* GetConfPath called with SECRET_CONFIG_PATH and GOPATH both set.
C8_Witness ==
    /\ out.op = "GetConfPath"
    /\ Secret # <<>>
    /\ GoPath # <<>>
    /\ out.val = Join(<<Secret, ConfFileName>>)

----------------------------------------------------------------------------
(* C9 *)

\* No variable the overlay reads is set.
NoRelevantVariable == \A i \in DOMAIN Fields : NoVariable(Fields[i])

\* C9 as stated: with no file and no relevant variable, ReadConfig returns a
\* nil error and a Config with IKS non-nil and every other field at its zero
\* value (the other sub-records nil).
C9_OnlyIKSAllocated ==
    (IsRead /\ ReadContent.kind = "missing" /\ NoRelevantVariable)
        => /\ out.err = NoError
           /\ ~out.isNil
           /\ out.conf.nonNil = {"IKS"}
           /\ out.conf.fld = ZeroFields

\* C9 amended: with no file and no relevant variable, ReadConfig returns a nil
\* error and a Config with IKS non-nil and every field of every sub-record at
\* its zero value; the other sub-records are not nil, the overlay allocates
\* them.
C9_AllAllocatedAllZero ==
    (IsRead /\ ReadContent.kind = "missing" /\ NoRelevantVariable)
        => /\ out.err = NoError
           /\ ~out.isNil
           /\ "IKS" \in out.conf.nonNil
           /\ out.conf.nonNil = Sections
           /\ out.conf.fld = ZeroFields

\* A call on a missing file with only a variable no field reads set.
C9_Witness ==
    /\ IsRead
    /\ ReadContent.kind = "missing"
    /\ NoRelevantVariable
    /\ "HOME" \in DOMAIN environ
    /\ out.err = NoError
    /\ out.conf.fld = ZeroFields

----------------------------------------------------------------------------
(* C10 *)

\* C10 as stated: after a failed decode every tagged field whose variable is
\* set and converts holds the environment value, and each failed step wrote
\* exactly one error line.
C10_OverlayAfterFailedDecode ==
    IsRead =>
        /\ DecodeFails(ReadContent) =>
            \A i \in DOMAIN Fields :
                TagConverts(Fields[i]) => out.conf.fld[i] = TagValue(Fields[i])
        /\ OneLinePerFailedStep

\* C10 amended: after a failed decode every tagged field whose variable is set
\* and converts holds the environment value, provided its section-prefixed
\* variable is unset and no variable read for an earlier field fails to
\* convert; and each failed step wrote exactly one error line.
C10_OverlayAfterFailedDecodeUntilFailure ==
    IsRead =>
        /\ DecodeFails(ReadContent) =>
            \A i \in DOMAIN Fields :
                (/\ TagConverts(Fields[i])
                 /\ Key(Fields[i]) \notin DOMAIN environ
                 /\ NoEarlierFailure(i))
                    => out.conf.fld[i] = TagValue(Fields[i])
        /\ OneLinePerFailedStep

\* The decode failed, one line says so, and DEBUG_TRACE was still overlaid.
C10_Witness ==
    /\ IsRead
    /\ DecodeFails(ReadContent)
    /\ Count(ParseFailed, out.log) = 1
    /\ TagConverts(Fields[1])
    /\ TagValue(Fields[1]) = TRUE
    /\ out.conf.fld[1] = TRUE

====
